---- MODULE Spec2Model ----
(***************************************************************************)
(* Model of tsp_solver.py: the brute-force solver with its wall-clock      *)
(* timeout, the nearest-neighbour solver, and the reporting harness.       *)
(* Locations are the integers 0..n-1; a matrix is a sequence of rows, so   *)
(* the Python entry distances[i][j] is distances[i+1][j+1] here.           *)
(***************************************************************************)
EXTENDS Integers, Sequences, FiniteSets, TLC

\* ---------------------------------------------------------------- bounds
MaxN == 3
MaxDist == 1
MaxTimeout == 1
TimeoutN == 6
Mantissa == 1

\* ------------------------------------------------------ program constants
Inf == -1
DefaultTimeout == 60

\* Python's None and a present value, as a zero- or one-element tuple.
None == <<>>
Some(v) == <<v>>
Val(o) == o[1]

VARIABLES
    distances,      \* the matrix both solvers are called with
    timeout,        \* tsp_brute_force's timeout argument
    start,          \* tsp_nearest_neighbor's start argument
    now,            \* the wall clock, time.time()
    bf_pc,          \* tsp_brute_force: "idle", "loop", "done"
    perm_idx,       \* how many permutations the iterator has yielded
    best_distance,
    best_route,
    start_time,
    routes_checked,
    last_poll,      \* the clock reading of the latest timeout check
    bf_result,      \* the pair tsp_brute_force returned
    nn_pc,          \* tsp_nearest_neighbor: "idle", "loop", "done"
    unvisited,
    current,
    route,
    total_distance,
    nn_steps,       \* iterations of the while loop so far
    nn_result,      \* the pair tsp_nearest_neighbor returned
    argv,           \* sys.argv[1:], at most one option
    present,        \* sizes whose data/sites_<size>.json exists
    h_pc,           \* position of the harness
    h_mode,         \* the reporting function main dispatched to
    h_sizes,        \* sizes the mode's for loop has still to visit
    h_size,         \* the loop variable size
    h_start_time,   \* the harness's own start_time around a solver call
    time_bf,        \* compare_all_approaches: elapsed time of brute force
    output,         \* the line printed last
    exit_status     \* process exit status once the harness has ended

bfVars == <<bf_pc, perm_idx, best_distance, best_route, start_time,
            routes_checked, last_poll, bf_result>>
nnVars == <<nn_pc, unvisited, current, route, total_distance, nn_steps,
            nn_result>>
hVars == <<argv, present, h_pc, h_mode, h_sizes, h_size, h_start_time,
           time_bf, exit_status>>
vars == <<distances, timeout, start, now, bfVars, nnVars, hVars, output>>

\* ------------------------------------------------------------- helpers
n == Len(distances)

D(d, i, j) == d[i + 1][j + 1]

RECURSIVE Fact(_)
Fact(k) == IF k <= 1 THEN 1 ELSE k * Fact(k - 1)

RemoveAt(s, i) == SubSeq(s, 1, i - 1) \o SubSeq(s, i + 1, Len(s))

\* other_locations = [i for i in locations if i != start], start = 0
OtherLocations(k) == [i \in 1..(k - 1) |-> i]

\* The k-th tuple (from 0) that itertools.permutations(pool) yields: the
\* tuples come in lexicographic order of the positions in pool.
RECURSIVE PermAt(_, _)
PermAt(pool, k) ==
    IF Len(pool) = 0 THEN <<>>
    ELSE LET f == Fact(Len(pool) - 1)
             i == (k \div f) + 1
         IN  <<pool[i]>> \o PermAt(RemoveAt(pool, i), k % f)

\* The distances are Python floats (location_generator.py writes
\* round(distance, 2)), so every sum is rounded to the nearest float, ties to
\* the even significand.  The model keeps Mantissa fraction bits of a
\* significand where a double keeps 52, over the non-negative integers.
RECURSIVE UlpOf(_, _)
UlpOf(x, u) == IF x < u * 2 ^ (Mantissa + 1) THEN u ELSE UlpOf(x, 2 * u)

Round(x) ==
    LET u == UlpOf(x, 1)
        q == x \div u
        r == x % u
    IN  IF 2 * r < u THEN q * u
        ELSE IF 2 * r > u THEN (q + 1) * u
        ELSE IF q % 2 = 0 THEN q * u ELSE (q + 1) * u

\* a + b on floats
FAdd(a, b) == Round(a + b)

\* distance = 0
\* for i in range(len(route) - 1): distance += distances[route[i]][route[i+1]]
RECURSIVE RouteDistanceUpTo(_, _, _)
RouteDistanceUpTo(d, r, i) ==
    IF i = 0 THEN 0
    ELSE FAdd(RouteDistanceUpTo(d, r, i - 1), D(d, r[i], r[i + 1]))

RouteDistanceOpen(d, r) == RouteDistanceUpTo(d, r, Len(r) - 2)

RouteDistance(d, r) == RouteDistanceUpTo(d, r, Len(r) - 1)

\* time.time() - start_time > timeout
TimedOutAtOrAfter(t, s, limit) == t - s >= limit

TimedOut(t, s, limit) == t - s > limit

\* distance < best_distance, where best_distance may be float('inf')
Worse(distance, best) == best = Inf \/ distance > best

Less(distance, best) == best = Inf \/ distance < best

NoResult == [route |-> None, distance |-> None]

\* best_route = route[:-1]
KeepRoute(rt) == rt

TrimRoute(rt) == SubSeq(rt, 1, Len(rt) - 1)

\* return None, None (line 44), whatever best_route and best_distance hold
TimeoutReturnBest(r, d) == [route |-> r, distance |-> Some(d)]

TimeoutReturn(r, d) == NoResult

\* ------------------------------------------------------ tsp_brute_force
BFEnter ==
    /\ bf_pc' = "loop"
    /\ perm_idx' = 0
    /\ best_distance' = Inf
    /\ best_route' = None
    /\ start_time' = now
    /\ routes_checked' = 0
    /\ last_poll' = now
    /\ bf_result' = NoResult

\* One pass of the for loop: the timeout check, then one candidate.
BFIter ==
    /\ bf_pc = "loop"
    /\ perm_idx < Fact(n - 1)
    /\ last_poll' = now
    /\ IF TimedOut(now, start_time, timeout)
       THEN /\ output' = [kind |-> "bf_timeout", routes |-> routes_checked]
            /\ bf_result' = TimeoutReturn(best_route, best_distance)
            /\ bf_pc' = "done"
            /\ UNCHANGED <<perm_idx, best_distance, best_route,
                           routes_checked>>
       ELSE LET perm == PermAt(OtherLocations(n), perm_idx)
                rt == <<0>> \o perm \o <<0>>
                distance == RouteDistance(distances, rt)
            IN  /\ IF Less(distance, best_distance)
                   THEN /\ best_distance' = distance
                        /\ best_route' = Some(TrimRoute(rt))
                   ELSE UNCHANGED <<best_distance, best_route>>
                /\ routes_checked' = routes_checked + 1
                /\ perm_idx' = perm_idx + 1
                /\ UNCHANGED <<bf_pc, bf_result, output>>
    /\ UNCHANGED <<distances, timeout, start, now, start_time, nnVars, hVars>>

\* The iterator is exhausted: return best_route, best_distance.
BFReturn ==
    /\ bf_pc = "loop"
    /\ perm_idx = Fact(n - 1)
    /\ bf_result' = [route |-> best_route, distance |-> Some(best_distance)]
    /\ bf_pc' = "done"
    /\ UNCHANGED <<distances, timeout, start, now, perm_idx, best_distance,
                   best_route, start_time, routes_checked, last_poll,
                   nnVars, hVars, output>>

\* The wall clock advances while the enumeration runs.  Readings beyond the
\* first one that exceeds the timeout change nothing and are not generated.
Tick ==
    /\ bf_pc = "loop"
    /\ ~TimedOut(now, start_time, timeout)
    /\ now' = now + 1
    /\ UNCHANGED <<distances, timeout, start, bfVars, nnVars, hVars, output>>

\* ------------------------------------------------- tsp_nearest_neighbor
\* unvisited = set(range(n)); unvisited.remove(current)
InitUnvisitedKeepStart(k, s) == 0..(k - 1)

InitUnvisited(k, s) == (0..(k - 1)) \ {s}

\* min(unvisited, key=lambda x: distances[current][x]): a set has no order of
\* its own, so any member with the least key may be the one returned.
Farthest(d, c, u) ==
    {x \in u : \A y \in u : D(d, c, x) >= D(d, c, y)}

Nearest(d, c, u) ==
    {x \in u : \A y \in u : D(d, c, x) <= D(d, c, y)}

\* total_distance += distances[current][start]
CloseTourOpen(d, total, c, s) == total

CloseTour(d, total, c, s) == FAdd(total, D(d, c, s))

NNEnter ==
    /\ nn_pc' = "loop"
    /\ unvisited' = InitUnvisited(n, start)
    /\ current' = start
    /\ route' = <<start>>
    /\ total_distance' = 0
    /\ nn_steps' = 0
    /\ nn_result' = NoResult

NNStep ==
    /\ nn_pc = "loop"
    /\ unvisited # {}
    /\ \E nearest \in Nearest(distances, current, unvisited) :
          /\ total_distance' =
                FAdd(total_distance, D(distances, current, nearest))
          /\ current' = nearest
          /\ route' = Append(route, nearest)
          /\ unvisited' = unvisited \ {nearest}
    /\ nn_steps' = nn_steps + 1
    /\ UNCHANGED <<distances, timeout, start, now, bfVars, nn_pc, nn_result,
                   hVars, output>>

NNReturn ==
    /\ nn_pc = "loop"
    /\ unvisited = {}
    /\ total_distance' = CloseTour(distances, total_distance, current, start)
    /\ nn_result' = [route |-> Some(route),
                     distance |-> Some(total_distance')]
    /\ nn_pc' = "done"
    /\ UNCHANGED <<distances, timeout, start, now, bfVars, unvisited, current,
                   route, nn_steps, hVars, output>>

\* ------------------------------------------- the solvers called directly
\* Square k x k matrices of non-negative entries, as json.load delivers them
\* (each number the nearest float): a weight 0..MaxDist for each pair of
\* locations, and either no surcharge (the symmetric matrices that
\* location_generator.py writes) or a surcharge of three times MaxDist (enough
\* for the sum of three entries to be rounded) on every edge to a higher
\* index, or on every edge to a lower one.  Neither solver reads a
\* diagonal entry unless k = 1, so the diagonal is 0 for k > 1.
Pairs(k) == {p \in (1..k) \X (1..k) : p[1] < p[2]}

Surcharges == {"none", "up", "down"}

Surcharge(s, i, j) ==
    IF (i < j /\ s = "up") \/ (i > j /\ s = "down") THEN 3 * MaxDist ELSE 0

Matrices(k) ==
    IF k = 1 THEN { <<<<x>>>> : x \in 0..MaxDist }
    ELSE { [i \in 1..k |-> [j \in 1..k |->
              IF i = j THEN 0
              ELSE IF i < j
                   THEN Round(w[<<i, j>>] + Surcharge(s, i, j))
                   ELSE Round(w[<<j, i>>] + Surcharge(s, i, j))]] :
            w \in [Pairs(k) -> 0..MaxDist], s \in Surcharges }

HarnessIdle ==
    /\ argv = None
    /\ present = {}
    /\ h_pc = "none"
    /\ h_mode = "none"
    /\ h_sizes = <<>>
    /\ h_size = 0
    /\ h_start_time = 0
    /\ time_bf = 0
    /\ exit_status = None

SolversIdle ==
    /\ now = 0
    /\ bf_pc = "idle"
    /\ perm_idx = 0
    /\ best_distance = Inf
    /\ best_route = None
    /\ start_time = 0
    /\ routes_checked = 0
    /\ last_poll = 0
    /\ bf_result = NoResult
    /\ nn_pc = "idle"
    /\ unvisited = {}
    /\ current = 0
    /\ route = <<>>
    /\ total_distance = 0
    /\ nn_steps = 0
    /\ nn_result = NoResult
    /\ output = [kind |-> "nothing"]

Init ==
    /\ \E k \in 1..MaxN : distances \in Matrices(k)
    /\ timeout \in 0..MaxTimeout
    /\ start \in 0..(n - 1)
    /\ SolversIdle
    /\ HarnessIdle

\* tsp_nearest_neighbor(distances, start)
NNStart ==
    /\ h_pc = "none"
    /\ nn_pc = "idle"
    /\ NNEnter
    /\ UNCHANGED <<distances, timeout, start, now, bfVars, hVars, output>>

\* tsp_brute_force(distances, timeout), once tsp_nearest_neighbor has
\* returned (the program is single-threaded).
BFStart ==
    /\ h_pc = "none"
    /\ nn_pc = "done"
    /\ bf_pc = "idle"
    /\ BFEnter
    /\ UNCHANGED <<distances, timeout, start, now, nnVars, hVars, output>>

Next ==
    \/ NNStart
    \/ NNStep
    \/ NNReturn
    \/ BFStart
    \/ BFIter
    \/ BFReturn
    \/ Tick

Spec == Init /\ [][Next]_vars

\* ---------------------------------------- tsp_nearest_neighbor on its own
\* One call of tsp_nearest_neighbor(distances, start).  The interpreter runs
\* the function without waiting on anything, so a step that is enabled is
\* taken.
InitNN ==
    /\ \E k \in 1..MaxN : distances \in Matrices(k)
    /\ timeout = DefaultTimeout
    /\ start \in 0..(n - 1)
    /\ SolversIdle
    /\ HarnessIdle

NextNN ==
    \/ NNStart
    \/ NNStep
    \/ NNReturn

SpecNN == InitNN /\ [][NextNN]_vars /\ WF_vars(NextNN)

\* ------------------------------- the brute-force solver with no time budget
\* timeout = 0 on TimeoutN locations: matrices with weights 0..MaxDist and
\* the surcharges of Matrices.
TimeoutMatrices ==
    { [i \in 1..TimeoutN |-> [j \in 1..TimeoutN |->
          IF i = j THEN 0
          ELSE Round(((i * j + i + j) % (MaxDist + 1))
                     + Surcharge(s, i, j))]] : s \in Surcharges }

\* tsp_nearest_neighbor is not part of this run: it counts as returned.
InitTimeout ==
    /\ distances \in TimeoutMatrices
    /\ timeout = 0
    /\ start = 0
    /\ now = 0
    /\ bf_pc = "idle"
    /\ perm_idx = 0
    /\ best_distance = Inf
    /\ best_route = None
    /\ start_time = 0
    /\ routes_checked = 0
    /\ last_poll = 0
    /\ bf_result = NoResult
    /\ nn_pc = "done"
    /\ unvisited = {}
    /\ current = 0
    /\ route = <<>>
    /\ total_distance = 0
    /\ nn_steps = 0
    /\ nn_result = NoResult
    /\ output = [kind |-> "nothing"]
    /\ HarnessIdle

NextTimeout ==
    \/ BFStart
    \/ BFIter
    \/ BFReturn
    \/ Tick

SpecTimeout == InitTimeout /\ [][NextTimeout]_vars

\* ------------------------------------------------------------ the harness
DatasetSizes == {5, 8, 10, 12, 15, 20}

Options == {"--test-small", "--time-brute-force", "--time-approximation",
            "--compare-all", "--help", "--bogus"}

\* What a data file may hold where the harness reads it: a two-location
\* matrix (the all-zero one among them).
DataMatrices == Matrices(2)

\* f"{x:.2f}": None has no such format, a number prints with two decimals
\* (whole part, hundredths).
CanFormat(o) == o # None

Format2f(x) == [hundredths |-> x * 100]

\* f"{(dist_nn / dist_bf) * 100:.1f}": tenths of a percent, to the nearest
Quality(dist_nn, dist_bf) ==
    [tenths |-> (dist_nn * 2000 + dist_bf) \div (2 * dist_bf)]

\* a literal cell such as 'N/A' or 'TIMEOUT'
Text(t) == [text |-> t]

IsText(cell) == "text" \in DOMAIN cell

ModeOf(option) ==
    CASE option = "--test-small" -> "test_small_cases"
      [] option = "--time-brute-force" -> "time_brute_force"
      [] option = "--time-approximation" -> "time_approximation"
      [] option = "--compare-all" -> "compare_all_approaches"
      [] OTHER -> "none"

SizesOf(mode) ==
    CASE mode = "test_small_cases" -> <<5, 8, 10>>
      [] mode = "time_brute_force" -> <<5, 8, 10, 12, 15>>
      [] mode = "time_approximation" -> <<5, 8, 10, 12, 15, 20>>
      [] mode = "compare_all_approaches" -> <<5, 8, 10>>
      [] OTHER -> <<>>

RunsBruteForce(mode) ==
    mode \in {"test_small_cases", "time_brute_force", "compare_all_approaches"}

\* An uncaught exception: the traceback is the last thing written and the
\* interpreter exits with status 1.
Raise(error) ==
    /\ output' = [kind |-> "traceback", error |-> error]
    /\ h_pc' = "crashed"
    /\ exit_status' = Some(1)

\* sys.exit(1) after an error message
Exit1(message) ==
    /\ output' = [kind |-> message]
    /\ h_pc' = "exited"
    /\ exit_status' = Some(1)

\* main returns and the interpreter exits with status 0
Return0 ==
    /\ h_pc' = "exited"
    /\ exit_status' = Some(0)

InitMain ==
    /\ argv \in {None} \cup {Some(o) : o \in Options}
    /\ present \in SUBSET DatasetSizes
    /\ distances = <<>>
    /\ timeout = DefaultTimeout
    /\ start = 0
    /\ SolversIdle
    /\ h_pc = "main"
    /\ h_mode = "none"
    /\ h_sizes = <<>>
    /\ h_size = 0
    /\ h_start_time = 0
    /\ time_bf = 0
    /\ exit_status = None

\* main(), up to the call of the reporting function it selects
Main ==
    /\ h_pc = "main"
    /\ IF argv = None
       THEN /\ output' = [kind |-> "usage"]
            /\ Return0
            /\ UNCHANGED <<h_mode, h_sizes>>
       ELSE IF 5 \notin present
       THEN /\ Exit1("data_files_not_found")
            /\ UNCHANGED <<h_mode, h_sizes>>
       ELSE IF ModeOf(Val(argv)) # "none"
       THEN /\ h_mode' = ModeOf(Val(argv))
            /\ h_sizes' = SizesOf(ModeOf(Val(argv)))
            /\ h_pc' = "load"
            /\ output' = [kind |-> "banner", mode |-> ModeOf(Val(argv))]
            /\ UNCHANGED exit_status
       ELSE /\ output' = [kind |-> "usage"]
            /\ Return0
            /\ UNCHANGED <<h_mode, h_sizes>>
    /\ UNCHANGED <<distances, timeout, start, now, bfVars, nnVars, argv,
                   present, h_size, h_start_time, time_bf>>

\* for size in sizes: data = load_dataset(size); distances = data['distances']
LoadDataset ==
    /\ h_pc = "load"
    /\ h_sizes # <<>>
    /\ h_size' = Head(h_sizes)
    /\ h_sizes' = Tail(h_sizes)
    /\ IF Head(h_sizes) \notin present
       THEN /\ Exit1("dataset_not_found")
            /\ UNCHANGED distances
       ELSE /\ distances' \in DataMatrices
            /\ h_pc' = IF RunsBruteForce(h_mode) THEN "call_bf" ELSE "call_nn"
            /\ UNCHANGED <<output, exit_status>>
    /\ UNCHANGED <<timeout, start, now, bfVars, nnVars, argv, present, h_mode,
                   h_start_time, time_bf>>

\* The for loop is over: the reporting function and main return.
ModeReturn ==
    /\ h_pc = "load"
    /\ h_sizes = <<>>
    /\ Return0
    /\ output' = IF h_mode = "compare_all_approaches"
                 THEN [kind |-> "note"] ELSE output
    /\ UNCHANGED <<distances, timeout, start, now, bfVars, nnVars, argv,
                   present, h_mode, h_sizes, h_size, h_start_time, time_bf>>

\* start_time = time.time(); tsp_brute_force(distances, timeout=60)
CallBruteForce ==
    /\ h_pc = "call_bf"
    /\ h_start_time' = now
    /\ timeout' = DefaultTimeout
    /\ BFEnter
    /\ h_pc' = "in_bf"
    /\ UNCHANGED <<distances, start, now, nnVars, argv, present, h_mode,
                   h_sizes, h_size, time_bf, exit_status, output>>

\* The clock passes the whole budget while the enumeration runs.
TickLong ==
    /\ h_pc = "in_bf"
    /\ bf_pc = "loop"
    /\ ~TimedOut(now, start_time, timeout)
    /\ now' = now + timeout + 1
    /\ UNCHANGED <<distances, timeout, start, bfVars, nnVars, hVars, output>>

\* What each mode does with route, distance = tsp_brute_force(...)
AfterBruteForce ==
    /\ h_pc = "in_bf"
    /\ bf_pc = "done"
    /\ CASE h_mode = "test_small_cases" ->
              /\ IF CanFormat(bf_result.distance)
                 THEN /\ output' = [kind |-> "bf_distance",
                            distance |-> Format2f(Val(bf_result.distance))]
                      /\ h_pc' = "call_nn"
                      /\ UNCHANGED exit_status
                 ELSE Raise("TypeError")
              /\ UNCHANGED time_bf
         [] h_mode = "time_brute_force" ->
              /\ output' =
                    IF bf_result.route = None
                    THEN [kind |-> "bf_row", size |-> h_size,
                          elapsed |-> now - h_start_time,
                          distance |-> Text("N/A"), status |-> "TIMEOUT"]
                    ELSE [kind |-> "bf_row", size |-> h_size,
                          elapsed |-> now - h_start_time,
                          distance |-> Format2f(Val(bf_result.distance)),
                          status |-> "Complete"]
              /\ h_pc' = "load"
              /\ UNCHANGED <<time_bf, exit_status>>
         [] h_mode = "compare_all_approaches" ->
              /\ time_bf' = now - h_start_time
              /\ h_pc' = "call_nn"
              /\ UNCHANGED <<output, exit_status>>
    /\ UNCHANGED <<distances, timeout, start, now, bfVars, nnVars, argv,
                   present, h_mode, h_sizes, h_size, h_start_time>>

\* start_time = time.time(); tsp_nearest_neighbor(distances)
CallNearestNeighbor ==
    /\ h_pc = "call_nn"
    /\ h_start_time' = now
    /\ start' = 0
    /\ NNEnter
    /\ h_pc' = "in_nn"
    /\ UNCHANGED <<distances, timeout, now, bfVars, argv, present, h_mode,
                   h_sizes, h_size, time_bf, exit_status, output>>

\* What each mode does with route, distance = tsp_nearest_neighbor(...)
AfterNearestNeighbor ==
    /\ h_pc = "in_nn"
    /\ nn_pc = "done"
    /\ LET dist_nn == Val(nn_result.distance)
           dist_bf == bf_result.distance
       IN CASE h_mode = "test_small_cases" ->
                 IF Val(dist_bf) = 0
                 THEN Raise("ZeroDivisionError")
                 ELSE /\ output' = [kind |-> "quality",
                            quality |-> Quality(dist_nn, Val(dist_bf))]
                      /\ h_pc' = "load"
                      /\ UNCHANGED exit_status
            [] h_mode = "time_approximation" ->
                 /\ output' = [kind |-> "nn_row", size |-> h_size,
                               elapsed |-> now - h_start_time,
                               distance |-> Format2f(dist_nn)]
                 /\ h_pc' = "load"
                 /\ UNCHANGED exit_status
            [] h_mode = "compare_all_approaches" ->
                 IF bf_result.route = None
                 THEN /\ output' = [kind |-> "compare_row", size |-> h_size,
                               optimal |-> Text("TIMEOUT"),
                               approx |-> Format2f(dist_nn),
                               quality |-> Text("N/A"),
                               time_bf |-> Text("TIMEOUT")]
                      /\ h_pc' = "load"
                      /\ UNCHANGED exit_status
                 ELSE IF Val(dist_bf) = 0
                 THEN Raise("ZeroDivisionError")
                 ELSE /\ output' = [kind |-> "compare_row", size |-> h_size,
                               optimal |-> Format2f(Val(dist_bf)),
                               approx |-> Format2f(dist_nn),
                               quality |-> Quality(dist_nn, Val(dist_bf)),
                               time_bf |-> [seconds |-> time_bf]]
                      /\ h_pc' = "load"
                      /\ UNCHANGED exit_status
    /\ UNCHANGED <<distances, timeout, start, now, bfVars, nnVars, argv,
                   present, h_mode, h_sizes, h_size, h_start_time, time_bf>>

NextMain ==
    \/ Main
    \/ LoadDataset
    \/ ModeReturn
    \/ CallBruteForce
    \/ BFIter
    \/ BFReturn
    \/ TickLong
    \/ AfterBruteForce
    \/ CallNearestNeighbor
    \/ NNStep
    \/ NNReturn
    \/ AfterNearestNeighbor

SpecMain == InitMain /\ [][NextMain]_vars

\* ===================================================== the properties
\* The reference the solvers are measured against: every closed tour that
\* leaves location 0, visits every other location once and returns.
Tours(k) ==
    {p \in [1..(k - 1) -> 1..(k - 1)] :
        \A i, j \in 1..(k - 1) : p[i] = p[j] => i = j}

\* The length of the closed tour r[1] -> ... -> r[Len(r)] -> r[1]
RECURSIVE SumEdges(_, _, _)
SumEdges(d, r, i) ==
    IF i = 0 THEN 0
    ELSE FAdd(SumEdges(d, r, i - 1), D(d, r[i], r[(i % Len(r)) + 1]))

CycleLength(d, r) == SumEdges(d, r, Len(r))

TourLengths(d) == {CycleLength(d, <<0>> \o p) : p \in Tours(Len(d))}

MinTour(d) ==
    LET lengths == TourLengths(d)
    IN  CHOOSE m \in lengths : \A x \in lengths : m <= x

BFCompleted == bf_pc = "done" /\ bf_result # NoResult

NNCompleted == nn_pc = "done"

\* a complete (route, distance) pair for the matrix at hand, from location s
ValidResult(res, s) ==
    /\ res.route # None
    /\ res.distance # None
    /\ Len(Val(res.route)) = n
    /\ {Val(res.route)[i] : i \in 1..n} = 0..(n - 1)
    /\ Val(res.route)[1] = s
    /\ Val(res.distance) = CycleLength(distances, Val(res.route))

\* C1: whenever tsp_brute_force returns a result rather than timing out, the
\* distance it returns is the minimum length over all closed tours from
\* location 0, as the reference enumeration computes it.
BruteForceOptimal ==
    BFCompleted => bf_result.distance = Some(MinTour(distances))

\* C1 witness: a three-location run that completed although the first tour
\* enumerated is not a shortest one.
BruteForceOptimalWitness ==
    /\ BFCompleted
    /\ n = 3
    /\ CycleLength(distances, <<0, 1, 2>>) > MinTour(distances)

\* C2: every route a solver returns is a permutation of 0..n-1 that begins at
\* the start index (0 for tsp_brute_force, start for tsp_nearest_neighbor),
\* and the distance returned is the sum along the route plus the closing edge.
RouteValid ==
    /\ BFCompleted => ValidResult(bf_result, 0)
    /\ NNCompleted => ValidResult(nn_result, start)

\* C2 witness: both solvers returned on three locations, the greedy one from
\* a start other than 0 and with a non-zero closing edge.
RouteValidWitness ==
    /\ BFCompleted
    /\ NNCompleted
    /\ n = 3
    /\ start # 0
    /\ D(distances, current, start) > 0

\* C3: each pass of the loop reads the clock before it evaluates a candidate;
\* a pass that finds the elapsed time beyond the timeout returns (None, None)
\* at once, evaluating nothing more and dropping the best route so far; and
\* whatever is returned is (None, None) or a complete (route, distance) pair.
TimeoutSignal ==
    /\ [](bf_pc = "done" => (bf_result = NoResult \/ ValidResult(bf_result, 0)))
    /\ [][bf_pc = "loop" =>
            /\ routes_checked' # routes_checked =>
                  /\ last_poll' = now
                  /\ ~(now - start_time > timeout)
                  /\ routes_checked' = routes_checked + 1
            /\ (last_poll' - start_time > timeout /\ bfVars' # bfVars) =>
                  /\ bf_pc' = "done"
                  /\ bf_result' = NoResult
                  /\ routes_checked' = routes_checked
                  /\ perm_idx' = perm_idx]_vars

\* C3 witness: the timeout fired after a candidate had been evaluated, and
\* the best route found by then was not returned.
TimeoutSignalWitness ==
    /\ bf_pc = "done"
    /\ bf_result = NoResult
    /\ best_route # None
    /\ routes_checked > 0

\* C4 as stated: with timeout 0 on TimeoutN or more locations the call always
\* returns (None, None), however the clock behaves.
TimeoutZeroNoResult ==
    (bf_pc = "done" /\ timeout = 0 /\ n >= 6) => bf_result = NoResult

\* C4 as amended: with timeout 0 the call returns (None, None) exactly when
\* one of its polls read the clock later than the start reading; when no poll
\* did, it has evaluated all (n-1)! candidates and returns the true optimum.
TimeoutZeroOutcome ==
    (bf_pc = "done" /\ timeout = 0 /\ n >= 6) =>
        IF last_poll > start_time
        THEN bf_result = NoResult
        ELSE /\ routes_checked = Fact(n - 1)
             /\ ValidResult(bf_result, 0)
             /\ bf_result.distance = Some(MinTour(distances))

\* C4 witness: timeout 0, the clock moved after some candidates, no result.
TimeoutZeroWitness ==
    /\ bf_pc = "done"
    /\ timeout = 0
    /\ n >= 6
    /\ routes_checked > 0
    /\ bf_result = NoResult

\* C5: in every mode that runs the exact solver, a timed-out run is reported
\* as a timeout: no distance is formatted from it, no quality ratio is
\* computed from it, and the harness does not crash on it.
HarnessReportsTimeout ==
    (RunsBruteForce(h_mode) /\ bf_pc = "done" /\ bf_result = NoResult) =>
        /\ h_pc # "crashed"
        /\ output.kind \notin {"bf_distance", "quality"}
        /\ output.kind = "bf_row" =>
              IsText(output.distance) /\ output.status = "TIMEOUT"
        /\ output.kind = "compare_row" =>
              IsText(output.optimal) /\ IsText(output.quality)

\* C6 as stated: whenever tsp_brute_force returns a result, the distance
\* tsp_nearest_neighbor returns from any start is at least that distance.
NearestNeighborAtLeastOptimal ==
    (BFCompleted /\ NNCompleted) =>
        Val(nn_result.distance) >= Val(bf_result.distance)

\* the closed tour r, written from location 0 on
RotateToZero(r) ==
    LET k == CHOOSE i \in 1..Len(r) : r[i] = 0
    IN  [i \in 1..Len(r) |-> r[((k + i - 2) % Len(r)) + 1]]

\* C6 as amended: whenever tsp_brute_force returns a result, the distance
\* tsp_nearest_neighbor returns from start 0 is at least that distance; from
\* any start its tour, summed from location 0 on as tsp_brute_force sums its
\* candidates, is at least that distance (the distance it returns adds the
\* same edges in another order and may round lower).
NearestNeighborAtLeastOptimalFromZero ==
    (BFCompleted /\ NNCompleted) =>
        /\ start = 0 => Val(nn_result.distance) >= Val(bf_result.distance)
        /\ CycleLength(distances, RotateToZero(Val(nn_result.route)))
              >= Val(bf_result.distance)

\* C6 witness: from start 0 the greedy tour is strictly longer than the
\* optimum.
NearestNeighborWorseWitness ==
    /\ BFCompleted
    /\ NNCompleted
    /\ start = 0
    /\ Val(nn_result.distance) > Val(bf_result.distance)

\* C7: tsp_nearest_neighbor returns, after exactly n-1 selections (each one
\* takes a location off unvisited), and what it returns is a complete
\* (route, distance) pair, never (None, None).
NearestNeighborTerminates ==
    /\ <>(nn_pc = "done")
    /\ [](nn_pc = "loop" => nn_steps + Cardinality(unvisited) = n - 1)
    /\ [](nn_pc = "done" =>
            /\ nn_steps = n - 1
            /\ nn_result # NoResult
            /\ nn_result.route # None
            /\ nn_result.distance # None
            /\ Len(Val(nn_result.route)) = n)

\* C7 witness: the greedy solver returned on three locations after two
\* selections, from a start other than 0.
NearestNeighborTerminatesWitness ==
    /\ nn_pc = "done"
    /\ n = 3
    /\ nn_steps = 2
    /\ start # 0
    /\ Len(Val(nn_result.route)) = 3

SolverResult(r, d) == [route |-> Some(r), distance |-> Some(d)]

\* C8 as stated: on any 1 x 1 matrix both solvers return route [0] with
\* distance 0; on a symmetric 2 x 2 matrix both return 2 * distances[0][1].
DegenerateSizesAnyDiagonal ==
    /\ (n = 1 /\ BFCompleted) => bf_result = SolverResult(<<0>>, 0)
    /\ (n = 1 /\ NNCompleted) => nn_result = SolverResult(<<0>>, 0)
    /\ (n = 2 /\ D(distances, 0, 1) = D(distances, 1, 0)) =>
          /\ BFCompleted =>
                bf_result.distance = Some(2 * D(distances, 0, 1))
          /\ NNCompleted =>
                nn_result.distance = Some(2 * D(distances, 0, 1))

\* C8 as amended: on a 1 x 1 matrix whose entry is 0 both solvers return
\* route [0] with distance 0 (in general the distance is distances[0][0]); on
\* a symmetric 2 x 2 matrix both return 2 * distances[0][1].
DegenerateSizes ==
    /\ (n = 1 /\ BFCompleted) =>
          bf_result = SolverResult(<<0>>, D(distances, 0, 0))
    /\ (n = 1 /\ NNCompleted) =>
          nn_result = SolverResult(<<0>>, D(distances, 0, 0))
    /\ (n = 2 /\ D(distances, 0, 1) = D(distances, 1, 0)) =>
          /\ BFCompleted =>
                bf_result.distance = Some(2 * D(distances, 0, 1))
          /\ NNCompleted =>
                nn_result.distance = Some(2 * D(distances, 0, 1))

\* C8 witness: both solvers returned on a 1 x 1 matrix whose entry is 0.
DegenerateSizesWitness ==
    /\ n = 1
    /\ D(distances, 0, 0) = 0
    /\ BFCompleted
    /\ NNCompleted
    /\ bf_result = SolverResult(<<0>>, 0)

\* C9: started with no argument or with an unrecognized one, the harness
\* prints the usage text and exits with status 0, whatever files exist.
UsageExitsZero ==
    (exit_status # None /\ (argv = None \/ Val(argv) = "--bogus")) =>
        /\ output.kind = "usage"
        /\ exit_status = Some(0)

Visited == {route[i] : i \in 1..Len(route)}

\* C10: each location of the greedy route after the first is new to the route
\* and nearest to its predecessor among the locations not yet on the route;
\* a step moves exactly the chosen location from unvisited to the route.
GreedyStep ==
    /\ [](nn_pc \in {"loop", "done"} =>
            /\ unvisited = (0..(n - 1)) \ Visited
            /\ \A k \in 1..(Len(route) - 1) :
                  /\ route[k + 1] \notin {route[i] : i \in 1..k}
                  /\ \A x \in (0..(n - 1)) \ {route[i] : i \in 1..k} :
                        D(distances, route[k], route[k + 1])
                            <= D(distances, route[k], x))
    /\ [][(nn_pc = "loop" /\ route' # route) =>
            \E c \in unvisited :
                /\ route' = Append(route, c)
                /\ unvisited' = unvisited \ {c}
                /\ Visited' = Visited \cup {c}]_vars

\* C10 witness: a finished greedy route on three locations whose first step
\* had a strictly nearer and a strictly farther candidate.
GreedyStepWitness ==
    /\ nn_pc = "done"
    /\ n = 3
    /\ \E x \in 0..(n - 1) :
          /\ x \notin {route[1], route[2]}
          /\ D(distances, route[1], route[2]) < D(distances, route[1], x)

====
